---- MODULE Spec2Model ----
(***************************************************************************)
(* The service abstraction layer of family-point-fe: the data service and  *)
(* the authentication service, each in its embedded-backend (Supabase) and *)
(* its remote-HTTP (REST) variant, over the store the SQL schema defines.  *)
(***************************************************************************)
EXTENDS Integers, Sequences, FiniteSets, TLC

\* ------------------------------------------------------------------ bounds
MaxEntries == 2
MaxRows == 1
MaxTime == 2

\* ------------------------------------------------------------ value domains
NULL == "NULL"

FamilyIds == {"p1", "p2"}
UserIds == {"p1", "k1", "k2", "p2"}
PointValues == {10, 0 - 5}
Statuses == {"pending", "approved", "rejected"}
EntryIds == 1..MaxEntries
RowIds == 1..MaxRows
ServiceTypes == {"supabase", "rest-api"}

VARIABLES
  serviceType,         \* the configured variant the factory built
  session,             \* auth.uid() of the embedded client's session, or NULL
  token,               \* localStorage auth_token of the remote variant, or NULL
  auth_users,          \* the users registered with the embedded store's auth
  user_profiles, families, activities, rewards, point_entries, reward_redemptions,
  now,                 \* the wall clock read by NOW() and new Date()
  last,                \* the last service call and the envelope it returned
  stats,               \* the fetchDashboardStats call in flight: its four queries
  authStateCallbacks,  \* RestApiAuthService.authStateCallbacks, in array order
  handles,             \* the registrations onAuthStateChange has returned handles for
  notify,              \* the notifyAuthStateChange loop in progress
  delivered,           \* the callback invocations of the last notifyAuthStateChange
  processEnv,          \* process.env: the NEXT_PUBLIC_* settings
  factory,             \* ServiceFactory.instance: config and the two cached services
  exports,             \* the module-level authService / dataService, and the line reached
  instances,           \* the service instances built, and those built and returned since reset()
  provider             \* the AuthProvider component: its state and its calls in flight

store == <<user_profiles, families, activities, rewards, point_entries, reward_redemptions>>
client == <<serviceType, session, token, auth_users>>
services == <<stats, authStateCallbacks, handles, notify, delivered>>
wiring == <<processEnv, factory, exports, instances>>
aux == <<services, wiring, provider>>
vars == <<client, store, now, last, aux>>

\* ------------------------------------------------------------------ schema
\* The columns each CREATE TABLE declares.
FamilyColumns == {"id", "name", "created_by", "created_at", "updated_at"}
ProfileColumns ==
  {"id", "user_id", "email", "display_name", "role", "family_id", "created_at",
   "updated_at"}
ActivityColumns ==
  {"id", "family_id", "name", "description", "category", "points", "requires_approval",
   "deadline", "created_by", "created_at", "updated_at"}
RewardColumns ==
  {"id", "family_id", "name", "description", "point_cost", "created_by", "created_at",
   "updated_at"}
EntryColumns ==
  {"id", "family_id", "user_id", "activity_id", "reward_id", "points", "status",
   "submitted_at", "approved_at", "approved_by", "notes"}
RedemptionColumns ==
  {"id", "family_id", "user_id", "reward_id", "points_spent", "status", "requested_at",
   "approved_at", "approved_by", "notes"}

Columns(t) ==
  CASE t = "families" -> FamilyColumns
    [] t = "user_profiles" -> ProfileColumns
    [] t = "activities" -> ActivityColumns
    [] t = "rewards" -> RewardColumns
    [] t = "point_entries" -> EntryColumns
    [] t = "reward_redemptions" -> RedemptionColumns

\* A query naming a column the table does not have is rejected by the store.
ColumnsExist(t, cols) == cols \subseteq Columns(t)

\* The rows the store was provisioned with: two families, one of them without kids.
SeedFamilies ==
  { [id |-> "p1", name |-> "Alice's Family", created_by |-> "p1"],
    [id |-> "p2", name |-> "Bob's Family", created_by |-> "p2"] }

SeedProfiles ==
  { [user_id |-> "p1", display_name |-> "Alice", role |-> "parent", family_id |-> "p1"],
    [user_id |-> "k1", display_name |-> "Kim", role |-> "kid", family_id |-> "p1"],
    [user_id |-> "k2", display_name |-> "Ken", role |-> "kid", family_id |-> "p1"],
    [user_id |-> "p2", display_name |-> "Bob", role |-> "parent", family_id |-> "p2"] }

\* ------------------------------------------------------ row-level security
\* SELECT family_id FROM user_profiles WHERE user_id = auth.uid()
MyFamilies(uid) ==
  {p.family_id : p \in {q \in user_profiles : q.user_id = uid}} \ {NULL}

\* SELECT family_id FROM user_profiles WHERE user_id = auth.uid() AND role = 'parent'
MyParentFamilies(uid) ==
  {p.family_id : p \in {q \in user_profiles : q.user_id = uid /\ q.role = "parent"}} \ {NULL}

\* "Family members can view ..." / "Parents can manage ..." (FOR SELECT)
CanSelect(uid, row) ==
  uid # NULL /\ row.family_id \in (MyFamilies(uid) \cup MyParentFamilies(uid))

\* "Parents can manage ..." (FOR ALL): UPDATE and DELETE of an existing row
CanManage(uid, row) ==
  uid # NULL /\ row.family_id \in MyParentFamilies(uid)

\* INSERT into activities / rewards: only "Parents can manage ..." applies
CanInsertManaged(uid, row) ==
  uid # NULL /\ row.family_id \in MyParentFamilies(uid)

\* INSERT into point_entries / reward_redemptions: "Kids can insert their own ..."
\* or "Parents can manage ..."
CanInsertOwn(uid, row) ==
  /\ uid # NULL
  /\ \/ row.user_id = uid /\ row.family_id \in MyFamilies(uid)
     \/ row.family_id \in MyParentFamilies(uid)

\* ---------------------------------------------------------------- envelopes
\* {data, error}: data is null (isnull) or a list of rows; a single item is a
\* list of length one.
Ok(rows) == [isnull |-> FALSE, data |-> rows, error |-> NULL]
OkNull == [isnull |-> TRUE, data |-> <<>>, error |-> NULL]
Err(msg) == [isnull |-> TRUE, data |-> <<>>, error |-> msg]

\* catch (error) { return { data: null, error: error.message } }
Caught(msg) == Err(msg)

\* .single(): exactly one row, else the store's PGRST116 error
SingleError == "PGRST116"
BackendError == "backend error"
ColumnError == "column does not exist"
ConstraintError == "constraint violation"
PolicyError == "row-level security"

\* ------------------------------------------------------------------ helpers
RECURSIVE SumPoints(_)
SumPoints(S) ==
  IF S = {} THEN 0
  ELSE LET e == CHOOSE x \in S : TRUE IN e.points + SumPoints(S \ {e})

\* every order in which the store may return the rows of S
Orders(S) ==
  {s \in [1..Cardinality(S) -> S] : \A i, j \in 1..Cardinality(S) : i # j => s[i] # s[j]}

\* .order("created_at", { ascending: false })
IsDescending(s) ==
  \A i, j \in 1..Len(s) : i < j => s[i].created_at >= s[j].created_at

Call(op, args, fault, matched, env) ==
  [op |-> op, args |-> args, fault |-> fault, matched |-> matched, env |-> env]

StatusOf(approved) == IF approved THEN "approved" ELSE "rejected"

Supabase == serviceType = "supabase"
Rest == serviceType = "rest-api"

\* ----------------------------------------------------- store primitives
\* Partial<T> applied to a row: the named columns are overwritten.
Patched(r, patch) ==
  [c \in DOMAIN r |-> IF c \in DOMAIN patch THEN patch[c] ELSE r[c]]

\* .update(patch).eq("id", id): the rows the service's own filter names
MatchId(rows, id) == {r \in rows : r.id = id}

\* the rows of `matched` the session may UPDATE or DELETE under the policies
Manageable(uid, matched) == {r \in matched : CanManage(uid, r)}

\* An update that adds .eq("status", "pending") to the filter, for comparison.
UpdatePendingOnly(t, rows, uid, id, patch, fault, valid) ==
  LET hit == {r \in Manageable(uid, MatchId(rows, id)) :
                "status" \in DOMAIN r => r.status = "pending"} IN
  IF fault THEN [error |-> BackendError, rows |-> rows, out |-> <<>>]
  ELSE IF ~ColumnsExist(t, DOMAIN patch)
    THEN [error |-> ColumnError, rows |-> rows, out |-> <<>>]
  ELSE IF hit # {} /\ ~valid
    THEN [error |-> ConstraintError, rows |-> rows, out |-> <<>>]
  ELSE IF Cardinality(hit) # 1
    THEN [error |-> SingleError, rows |-> rows, out |-> <<>>]
  ELSE LET old == CHOOSE r \in hit : TRUE
           new == Patched(old, patch)
       IN [error |-> NULL, rows |-> (rows \ {old}) \cup {new}, out |-> <<new>>]

\* .update(patch).eq("id", id).select().single() against table t
\* [error, rows (the table afterwards), out (the row returned)]
UpdateSingle(t, rows, uid, id, patch, fault, valid) ==
  LET hit == Manageable(uid, MatchId(rows, id)) IN
  IF fault THEN [error |-> BackendError, rows |-> rows, out |-> <<>>]
  ELSE IF ~ColumnsExist(t, DOMAIN patch)
    THEN [error |-> ColumnError, rows |-> rows, out |-> <<>>]
  ELSE IF hit # {} /\ ~valid
    THEN [error |-> ConstraintError, rows |-> rows, out |-> <<>>]
  ELSE IF Cardinality(hit) # 1
    THEN [error |-> SingleError, rows |-> rows, out |-> <<>>]
  ELSE LET old == CHOOSE r \in hit : TRUE
           new == Patched(old, patch)
       IN [error |-> NULL, rows |-> (rows \ {old}) \cup {new}, out |-> <<new>>]

\* .insert(row).select().single() against table t
InsertSingle(t, rows, row, cols, fault, valid, allowed) ==
  IF fault THEN [error |-> BackendError, rows |-> rows, out |-> <<>>]
  ELSE IF ~ColumnsExist(t, cols) THEN [error |-> ColumnError, rows |-> rows, out |-> <<>>]
  ELSE IF ~valid THEN [error |-> ConstraintError, rows |-> rows, out |-> <<>>]
  ELSE IF ~allowed THEN [error |-> PolicyError, rows |-> rows, out |-> <<>>]
  ELSE [error |-> NULL, rows |-> rows \cup {row}, out |-> <<row>>]

\* if (error) throw error; return { data, error: null } / catch
Returned(res) == IF res.error # NULL THEN Caught(res.error) ELSE Ok(res.out)

UserExists(uid) == \E p \in user_profiles : p.user_id = uid

\* ---------------------------------------------- embedded data service: entries
\* A patch that ignores the approved flag, for comparison.
ApprovalPatchIgnoringFlag(approved, approvedBy) ==
  [status |-> "approved", approved_at |-> now, approved_by |-> approvedBy]

\* the patch approvePointEntry / approveRewardRedemption sends
ApprovalPatch(approved, approvedBy) ==
  [status |-> StatusOf(approved), approved_at |-> now, approved_by |-> approvedBy]

\* A column default of 'pending' (that of reward_redemptions), for comparison.
EntryStatusDefaultPending(status) == IF status = "omitted" THEN "pending" ELSE status

\* point_entries.status TEXT NOT NULL DEFAULT 'approved'
EntryStatus(status) == IF status = "omitted" THEN "approved" ELSE status

\* the fields the typed inputs of the create operations always carry
EntryFields == {"family_id", "user_id", "points"}
RedemptionFields == {"family_id", "user_id", "reward_id", "points_spent", "status"}
ActivityFields == {"family_id", "name", "points", "created_by"}
RewardFields == {"family_id", "name", "points_required", "created_by"}

\* The inputs of an action are drawn from the sets it is given: ids the store
\* may assign, owners the caller names, and so on.
createPointEntry(ids, owners, points, statuses) ==
  /\ Supabase
  /\ \E owner \in owners, pts \in points, id \in ids, status \in statuses,
        description \in BOOLEAN, fault \in BOOLEAN :
       LET row == [id |-> id, family_id |-> owner.family_id, user_id |-> owner.user_id,
                   activity_id |-> 0, points |-> pts,
                   status |-> EntryStatus(status),
                   approved_at |-> 0, approved_by |-> NULL]
           cols == EntryFields
                     \cup (IF status = "omitted" THEN {} ELSE {"status"})
                     \cup (IF description THEN {"description"} ELSE {})
           res == InsertSingle("point_entries", point_entries, row, cols, fault, TRUE,
                               CanInsertOwn(session, row))
       IN /\ id \notin {e.id : e \in point_entries}
          /\ point_entries' = res.rows
          /\ last' = Call("createPointEntry",
                          [user_id |-> row.user_id, status |-> status],
                          fault, {}, Returned(res))
  /\ UNCHANGED <<aux, client, user_profiles, families, activities, rewards,
                 reward_redemptions, now>>

updatePointEntry(ids, patches) ==
  /\ Supabase
  /\ \E id \in ids, patch \in patches, fault \in BOOLEAN :
       LET res == UpdateSingle("point_entries", point_entries, session, id, patch, fault, TRUE)
       IN /\ point_entries' = res.rows
          /\ last' = Call("updatePointEntry", [id |-> id], fault,
                          MatchId(point_entries, id), Returned(res))
  /\ UNCHANGED <<aux, client, user_profiles, families, activities, rewards,
                 reward_redemptions, now>>

approvePointEntry(ids, approvers) ==
  /\ Supabase
  /\ \E id \in ids, approved \in BOOLEAN, approvedBy \in approvers, fault \in BOOLEAN :
       LET res == UpdateSingle("point_entries", point_entries, session, id,
                               ApprovalPatch(approved, approvedBy), fault,
                               UserExists(approvedBy))
       IN /\ point_entries' = res.rows
          /\ last' = Call("approvePointEntry",
                          [id |-> id, approved |-> approved, approvedBy |-> approvedBy],
                          fault, MatchId(point_entries, id), Returned(res))
  /\ UNCHANGED <<aux, client, user_profiles, families, activities, rewards,
                 reward_redemptions, now>>

\* ------------------------------------------ embedded data service: redemptions
createRewardRedemption(ids, owners, statuses) ==
  /\ Supabase
  /\ \E owner \in owners, reward \in rewards, id \in ids, status \in statuses,
        fault \in BOOLEAN :
       LET row == [id |-> id, family_id |-> owner.family_id, user_id |-> owner.user_id,
                   reward_id |-> reward.id, points_spent |-> reward.point_cost,
                   status |-> status, approved_at |-> 0, approved_by |-> NULL]
           cols == RedemptionFields
           res == InsertSingle("reward_redemptions", reward_redemptions, row, cols, fault,
                               TRUE, CanInsertOwn(session, row))
       IN /\ id \notin {e.id : e \in reward_redemptions}
          /\ reward_redemptions' = res.rows
          /\ last' = Call("createRewardRedemption",
                          [user_id |-> row.user_id, status |-> status],
                          fault, {}, Returned(res))
  /\ UNCHANGED <<aux, client, user_profiles, families, activities, rewards,
                 point_entries, now>>

approveRewardRedemption(ids, approvers) ==
  /\ Supabase
  /\ \E id \in ids, approved \in BOOLEAN, approvedBy \in approvers, fault \in BOOLEAN :
       LET res == UpdateSingle("reward_redemptions", reward_redemptions, session, id,
                               ApprovalPatch(approved, approvedBy), fault,
                               UserExists(approvedBy))
       IN /\ reward_redemptions' = res.rows
          /\ last' = Call("approveRewardRedemption",
                          [id |-> id, approved |-> approved, approvedBy |-> approvedBy],
                          fault, MatchId(reward_redemptions, id), Returned(res))
  /\ UNCHANGED <<aux, client, user_profiles, families, activities, rewards,
                 point_entries, now>>

\* ------------------------------------------------------------ environment
\* time passes
Tick ==
  /\ now < MaxTime
  /\ now' = now + 1
  /\ UNCHANGED <<aux, client, store, last>>

Profile(uid) == CHOOSE p \in SeedProfiles : p.user_id = uid

\* rows of the other family and the family's reward, provisioned with the store
SeedRewards ==
  { [id |-> 0 - 1, family_id |-> "p1", name |-> "Movie", point_cost |-> 10,
     created_by |-> "p1", created_at |-> 1],
    [id |-> 0 - 2, family_id |-> "p2", name |-> "Cake", point_cost |-> 10,
     created_by |-> "p2", created_at |-> 1] }

NoCall == Call("none", <<>>, FALSE, {}, OkNull)

\* no fetchDashboardStats call has been made
NoStats == [state |-> "idle", family_id |-> NULL, pending |-> {}, counts |-> <<>>, at |-> <<>>]

\* no notifyAuthStateChange loop is running
NoNotify == [active |-> FALSE, event |-> NULL, session |-> NULL, stored |-> NULL,
             k |-> 0, len |-> 0, call |-> NoCall]

ServicesInit ==
  /\ stats = NoStats
  /\ authStateCallbacks = <<>>
  /\ handles = {}
  /\ notify = NoNotify
  /\ delivered = <<>>

\* ------------------------------------------------------ the service factory
\* process.env: NEXT_PUBLIC_SERVICE_TYPE (NULL when unset), and whether
\* NEXT_PUBLIC_API_BASE_URL, NEXT_PUBLIC_API_KEY and the two Supabase settings
\* (URL and anon key, neither a placeholder) are set
EnvTypes == {NULL, "supabase", "rest-api", "graphql"}
Envs == [type : EnvTypes, baseUrl : BOOLEAN, apiKey : BOOLEAN, supabase : BOOLEAN]

\* process.env.NEXT_PUBLIC_SERVICE_TYPE || 'supabase', and the two REST settings
getServiceConfig(e) ==
  [type |-> IF e.type = NULL THEN "supabase" ELSE e.type,
   baseUrl |-> e.baseUrl, apiKey |-> e.apiKey]

SupabaseConfigError == "Supabase configuration is missing or using placeholder values"
RestConfigError == "REST API configuration missing: baseUrl and apiKey are required"
UnsupportedError == "Unsupported service type"

\* what the switch of a getter throws: createSupabaseClient() reads its two
\* settings from process.env when called; the REST case looks at this.config
ConfigError(config, e) ==
  CASE config.type = "supabase" -> IF e.supabase THEN NULL ELSE SupabaseConfigError
    [] config.type = "rest-api" ->
         IF ~config.baseUrl \/ ~config.apiKey THEN RestConfigError ELSE NULL
    [] OTHER -> UnsupportedError

NoService == [id |-> 0, kind |-> NULL, variant |-> NULL]
NoConfig == [type |-> NULL, baseUrl |-> FALSE, apiKey |-> FALSE]
NoFactory ==
  [exists |-> FALSE, config |-> NoConfig, authService |-> NoService,
   dataService |-> NoService]
NoSets == [auth |-> {}, data |-> {}]
NoInstances == [built |-> 0, made |-> NoSets, returned |-> NoSets]
NoExports == [pc |-> "102", authService |-> NoService, dataService |-> NoService]
DefaultEnv == [type |-> NULL, baseUrl |-> FALSE, apiKey |-> FALSE, supabase |-> TRUE]

WiringInit ==
  /\ processEnv = DefaultEnv
  /\ factory = NoFactory
  /\ exports = NoExports
  /\ instances = NoInstances

\* how many service instances are built in all
MaxBuilt == 4

\* A getter that never finds its service cached, for comparison.
CachedNever(service) == FALSE

\* if (!this.authService) / if (!this.dataService)
Cached(service) == service # NoService

\* A getter that stores a service although its switch threw, for comparison.
KeptAnyway(service, error, fresh) == fresh

\* what the field holds after the switch: the throw leaves it as it was
Kept(service, error, fresh) == IF error # NULL THEN service ELSE fresh

\* A reset that keeps the configuration it had, for comparison.
ResetKeepingConfig(config, e) == config

\* reset(): this.config = getServiceConfig()
ResetConfig(config, e) == getServiceConfig(e)

\* A getter that reads the configuration anew, for comparison.
ConfigReadAnew(config, e) == getServiceConfig(e)

\* switch (this.config.type): the configuration a getter goes by
ConfigUsed(config, e) == config

\* The body of a getter for the cached field service: the instance returned
\* (or the error thrown), the field afterwards, and the instance built.
GetterOutcome(service, kind) ==
  IF Cached(service)
    THEN [returns |-> service, field |-> service, error |-> NULL, made |-> {}]
    ELSE LET config == ConfigUsed(factory.config, processEnv)
             error == ConfigError(config, processEnv)
             fresh == [id |-> instances.built + 1, kind |-> kind,
                       variant |-> config.type]
         IN [returns |-> fresh, field |-> Kept(service, error, fresh), error |-> error,
             made |-> IF error = NULL THEN {fresh.id} ELSE {}]

GetterEnvelope(out) == IF out.error # NULL THEN Caught(out.error) ELSE Ok(<<out.returns>>)

Returning(out) == IF out.error = NULL THEN {out.returns.id} ELSE {}

\* The module's own statements, lines 102 to 104, run in order when it is
\* imported; a throw ends the import. Afterwards callers use serviceFactory.
FactoryLines == {"102", "loaded"}
AuthLines == {"103", "loaded"}
DataLines == {"104", "loaded"}

\* ServiceFactory.getInstance(), with the private constructor reading the config
getInstance ==
  /\ exports.pc \in FactoryLines
  /\ factory' = IF factory.exists THEN factory
                ELSE [NoFactory EXCEPT !.exists = TRUE,
                                       !.config = getServiceConfig(processEnv)]
  /\ exports' = [exports EXCEPT !.pc = IF @ = "102" THEN "103" ELSE @]
  /\ last' = Call("getInstance", <<>>, FALSE, {}, OkNull)
  /\ UNCHANGED <<services, processEnv, instances, provider, client, store, now>>

getAuthService ==
  /\ factory.exists
  /\ exports.pc \in AuthLines
  /\ Cached(factory.authService) \/ instances.built < MaxBuilt
  /\ LET out == GetterOutcome(factory.authService, "auth") IN
       /\ factory' = [factory EXCEPT !.authService = out.field]
       /\ instances' = [instances EXCEPT !.built = @ + Cardinality(out.made),
                                         !.made.auth = @ \cup out.made,
                                         !.returned.auth = @ \cup Returning(out)]
       /\ exports' = IF exports.pc # "103" THEN exports
                     ELSE IF out.error # NULL THEN [exports EXCEPT !.pc = "failed"]
                     ELSE [exports EXCEPT !.pc = "104", !.authService = out.returns]
       /\ last' = Call("getAuthService", factory.config, out.error # NULL, out.made,
                       GetterEnvelope(out))
  /\ UNCHANGED <<services, processEnv, provider, client, store, now>>

getDataService ==
  /\ factory.exists
  /\ exports.pc \in DataLines
  /\ Cached(factory.dataService) \/ instances.built < MaxBuilt
  /\ LET out == GetterOutcome(factory.dataService, "data") IN
       /\ factory' = [factory EXCEPT !.dataService = out.field]
       /\ instances' = [instances EXCEPT !.built = @ + Cardinality(out.made),
                                         !.made.data = @ \cup out.made,
                                         !.returned.data = @ \cup Returning(out)]
       /\ exports' = IF exports.pc # "104" THEN exports
                     ELSE IF out.error # NULL THEN [exports EXCEPT !.pc = "failed"]
                     ELSE [exports EXCEPT !.pc = "loaded", !.dataService = out.returns]
       /\ last' = Call("getDataService", factory.config, out.error # NULL, out.made,
                       GetterEnvelope(out))
  /\ UNCHANGED <<services, processEnv, provider, client, store, now>>

\* serviceFactory.reset()
reset ==
  /\ exports.pc = "loaded"
  /\ factory' = [factory EXCEPT !.authService = NoService, !.dataService = NoService,
                                !.config = ResetConfig(factory.config, processEnv)]
  /\ instances' = [instances EXCEPT !.made = NoSets, !.returned = NoSets]
  /\ last' = Call("reset", <<>>, FALSE, {}, OkNull)
  /\ UNCHANGED <<services, processEnv, exports, provider, client, store, now>>

\* the environment is given other settings (a test, a redeploy)
setEnv(envs) ==
  /\ exports.pc = "loaded"
  /\ \E e \in envs :
       /\ e # processEnv
       /\ processEnv' = e
       /\ last' = Call("setEnv", e, FALSE, {}, OkNull)
  /\ UNCHANGED <<services, factory, exports, instances, provider, client, store, now>>

\* the AuthProvider component before it is mounted
\* (user: the id given to setUser, or NULL; profiled: whether it came with the
\* profile; session: the getSession() call of getInitialSession; fetches: the
\* fetchUserProfile calls awaiting their answer; event: the kind of the last
\* auth event handled)
NoProvider ==
  [mounted |-> FALSE, user |-> NULL, profiled |-> FALSE, loading |-> TRUE,
   session |-> "idle", fetches |-> <<>>, event |-> "none"]

ProviderInit == provider = NoProvider

\* how many fetchUserProfile calls of the provider are in flight at once
MaxFetches == 2

\* the seq without its i-th element
Without(seq, i) ==
  [j \in 1..(Len(seq) - 1) |-> IF j < i THEN seq[j] ELSE seq[j + 1]]

\* useEffect(() => { let mounted = true; getInitialSession(); onAuthStateChange(...) }, [])
providerMount ==
  /\ ~provider.mounted
  /\ provider.session = "idle"
  /\ provider' = [provider EXCEPT !.mounted = TRUE, !.session = "pending"]
  /\ UNCHANGED <<services, wiring, client, store, now, last>>

\* what authService.getSession() can come back with
SessionAnswers == {"user", "none", "raise"}

\* getInitialSession after its await: if (mounted) { if (sessionUser) await
\* fetchUserProfile(sessionUser.id) else setLoading(false) }; the catch does
\* setLoading(false) if mounted
sessionResolves(users) ==
  /\ provider.session = "pending"
  /\ \E answer \in SessionAnswers, u \in users :
       /\ answer = "user" => Len(provider.fetches) < MaxFetches
       /\ provider' =
         IF ~provider.mounted THEN [provider EXCEPT !.session = "done"]
         ELSE IF answer = "user"
           THEN [provider EXCEPT !.session = "done", !.fetches = Append(@, u)]
         ELSE [provider EXCEPT !.session = "done", !.loading = FALSE]
  /\ UNCHANGED <<services, wiring, client, store, now, last>>

\* the onAuthStateChange callback for an event carrying user u: if (!mounted)
\* return; if (session?.user) await fetchUserProfile(session.user.id)
authEventUser(users) ==
  /\ provider.mounted
  /\ Len(provider.fetches) < MaxFetches
  /\ \E u \in users :
       provider' = [provider EXCEPT !.fetches = Append(@, u), !.event = "in"]
  /\ UNCHANGED <<services, wiring, client, store, now, last>>

\* the callback for an event without user: setUser(null); setLoading(false)
authEventNoUser ==
  /\ provider.mounted
  /\ provider' = [provider EXCEPT !.user = NULL, !.profiled = FALSE, !.loading = FALSE,
                                  !.event = "out"]
  /\ UNCHANGED <<services, wiring, client, store, now, last>>

\* what authService.fetchUserProfile(userId) can come back with: a profile, an
\* error, null data with a null error, or a raised fault
ProfileAnswers == {"profile", "error", "empty", "raise"}

\* AuthProvider.fetchUserProfile after its await: error ? setUser({ id: userId })
\* : setUser(profile); catch: setUser({ id: userId }); finally setLoading(false).
\* Nothing looks at mounted or at what happened since the call was made.
profileResolves ==
  /\ \E i \in DOMAIN provider.fetches, answer \in ProfileAnswers :
       provider' = [provider EXCEPT
                      !.fetches = Without(@, i),
                      !.user = IF answer = "empty" THEN NULL ELSE provider.fetches[i],
                      !.profiled = (answer = "profile"),
                      !.loading = FALSE]
  /\ UNCHANGED <<services, wiring, client, store, now, last>>

\* the cleanup of the effect: mounted = false; unsubscribe()
providerUnmount ==
  /\ provider.mounted
  /\ provider' = [provider EXCEPT !.mounted = FALSE]
  /\ UNCHANGED <<services, wiring, client, store, now, last>>

AuxInit ==
  /\ ServicesInit
  /\ WiringInit
  /\ ProviderInit

\* ------------------------------------------- the approval workflow (embedded)
InitApproval ==
  /\ serviceType = "supabase"
  /\ session \in {"p1", "k1"}
  /\ token = NULL
  /\ auth_users = UserIds
  /\ user_profiles = SeedProfiles
  /\ families = SeedFamilies
  /\ activities = {}
  /\ rewards = SeedRewards
  /\ point_entries = {}
  /\ reward_redemptions = {}
  /\ now = 1
  /\ last = NoCall
  /\ AuxInit

StatusPatches ==
  {[status |-> "pending"], [status |-> "approved"], [status |-> "rejected"]}
Approvers == {"p1", "k1"}
\* the status field of a new entry: left out, or pending
GivenStatuses == {"omitted", "pending"}

NextApproval ==
  \/ Tick
  \/ createPointEntry(RowIds, {Profile("k1")}, {10}, GivenStatuses)
  \/ updatePointEntry(RowIds, StatusPatches)
  \/ approvePointEntry(RowIds, Approvers)
  \/ createRewardRedemption(RowIds, {Profile("k1")}, {"pending"})
  \/ approveRewardRedemption(RowIds, Approvers)

SpecApproval == InitApproval /\ [][NextApproval]_vars

\* ------------------------------------------- embedded data service: activities
createActivity(ids, fams, names, categories) ==
  /\ Supabase
  /\ \E familyId \in fams, name \in names, category \in categories, id \in ids,
        fault \in BOOLEAN :
       LET row == [id |-> id, family_id |-> familyId, name |-> name, category |-> category,
                   points |-> 10, created_by |-> session, created_at |-> now]
           cols == ActivityFields
                     \cup (IF category = "omitted" THEN {} ELSE {"category"})
           \* category TEXT NOT NULL; created_by REFERENCES user_profiles(user_id)
           valid == category # "omitted" /\ UserExists(session)
           res == InsertSingle("activities", activities, row, cols, fault, valid,
                               CanInsertManaged(session, row))
       IN /\ id \notin {a.id : a \in activities}
          /\ activities' = res.rows
          /\ last' = Call("createActivity", [family_id |-> familyId, name |-> name],
                          fault, {}, Returned(res))
  /\ UNCHANGED <<aux, client, user_profiles, families, rewards,
                 point_entries, reward_redemptions, now>>

\* ------------------------------------------- embedded data service: dashboard
\* from("user_profiles") ... .eq("family_id", familyId).eq("role", "kid")
KidProfiles(uid, familyId) ==
  {p \in user_profiles : CanSelect(uid, p) /\ p.family_id = familyId /\ p.role = "kid"}

\* The embed without the status filter, for comparison.
EmbeddedEntriesAnyStatus(uid, p) ==
  {e \in point_entries : CanSelect(uid, e) /\ e.user_id = p.user_id}

\* point_entries!inner(points) with .eq("point_entries.status", "approved")
EmbeddedEntries(uid, p) ==
  {e \in point_entries : CanSelect(uid, e) /\ e.user_id = p.user_id /\ e.status = "approved"}

\* !inner drops the profiles whose embedded list is empty
KidsJoined(uid, familyId) ==
  {p \in KidProfiles(uid, familyId) : EmbeddedEntries(uid, p) # {}}

\* kid.point_entries?.reduce((sum, entry) => sum + entry.points, 0) || 0
KidOf(uid, p) ==
  [id |-> p.user_id, display_name |-> p.display_name,
   total_points |-> SumPoints(EmbeddedEntries(uid, p))]

fetchKidsWithPoints(fams) ==
  /\ Supabase
  /\ \E familyId \in fams, fault \in BOOLEAN :
       \E kids \in (IF fault THEN {<<>>}
                    ELSE Orders({KidOf(session, p) : p \in KidsJoined(session, familyId)})) :
         last' = Call("fetchKidsWithPoints", [family_id |-> familyId], fault, {},
                      IF fault THEN Caught(BackendError) ELSE Ok(kids))
  /\ UNCHANGED <<aux, client, store, now>>

\* select id, points, created_at, activities(name), user_profiles(display_name)
\*   .eq("family_id", familyId).eq("status", "pending").order("created_at", desc)
PendingColumns == {"id", "points", "created_at", "family_id", "status"}

PendingEntries(uid, familyId) ==
  {e \in point_entries : CanSelect(uid, e) /\ e.family_id = familyId /\ e.status = "pending"}

PendingOf(uid, e) ==
  [id |-> e.id,
   activity_name |->
     IF \E a \in activities : a.id = e.activity_id /\ CanSelect(uid, a)
       THEN (CHOOSE a \in activities : a.id = e.activity_id).name
       ELSE "Unknown Activity",
   kid_name |->
     IF \E p \in user_profiles : p.user_id = e.user_id /\ CanSelect(uid, p)
       THEN (CHOOSE p \in user_profiles : p.user_id = e.user_id).display_name
       ELSE "Unknown Kid",
   points |-> e.points,
   submitted_at |-> e.created_at]

fetchPendingActivities(fams) ==
  /\ Supabase
  /\ \E familyId \in fams, fault \in BOOLEAN :
       LET bad == fault \/ ~ColumnsExist("point_entries", PendingColumns) IN
       \E s \in (IF bad THEN {<<>>}
                 ELSE {o \in Orders(PendingEntries(session, familyId)) :
                         IsDescending(o)}) :
         last' = Call("fetchPendingActivities", [family_id |-> familyId], fault, {},
                      IF fault THEN Caught(BackendError)
                      ELSE IF bad THEN Caught(ColumnError)
                      ELSE Ok([i \in 1..Len(s) |-> PendingOf(session, s[i])]))
  /\ UNCHANGED <<aux, client, store, now>>

\* The kids count without .eq("role", "kid"), for comparison.
KidsCountAnyRole(uid, familyId) ==
  Cardinality({p \in user_profiles : CanSelect(uid, p) /\ p.family_id = familyId})

\* The four count queries of fetchDashboardStats.
KidsCount(uid, familyId) == Cardinality(KidProfiles(uid, familyId))
ActivitiesCount(uid, familyId) ==
  Cardinality({a \in activities : CanSelect(uid, a) /\ a.family_id = familyId})
RewardsCount(uid, familyId) ==
  Cardinality({r \in rewards : CanSelect(uid, r) /\ r.family_id = familyId})
PendingCount(uid, familyId) ==
  Cardinality({e \in point_entries :
                 CanSelect(uid, e) /\ e.family_id = familyId /\ e.status = "pending"})

StatsQueries == {"kids", "activities", "rewards", "pending"}

\* What one count query can come to: its count, an error result (count null),
\* or a rejected promise.
NoFailure == [kind |-> "none", query |-> "none"]

QueryOutcomes ==
  {NoFailure}
    \cup {[kind |-> k, query |-> q] : k \in {"error", "reject"}, q \in StatsQueries}

\* kidsCount.count || 0: a query that resolved with an error has count null
CountOrZero(outcome, query, count) ==
  IF outcome.kind = "error" /\ outcome.query = query THEN 0 ELSE count

DashboardStatsOf(uid, familyId, outcome) ==
  [totalKids |-> CountOrZero(outcome, "kids", KidsCount(uid, familyId)),
   totalActivities |-> CountOrZero(outcome, "activities", ActivitiesCount(uid, familyId)),
   totalRewards |-> CountOrZero(outcome, "rewards", RewardsCount(uid, familyId)),
   pendingApprovals |-> CountOrZero(outcome, "pending", PendingCount(uid, familyId))]

\* await Promise.all([...]) inside try: only a rejected promise reaches the catch
StatsEnvelope(uid, familyId, outcome) ==
  IF outcome.kind = "reject" THEN Caught(BackendError)
  ELSE Ok(<<DashboardStatsOf(uid, familyId, outcome)>>)

fetchDashboardStats(fams) ==
  /\ Supabase
  /\ \E familyId \in fams, outcome \in QueryOutcomes :
       last' = Call("fetchDashboardStats", [family_id |-> familyId], outcome, {},
                    StatsEnvelope(session, familyId, outcome))
  /\ UNCHANGED <<aux, client, store, now>>

\* ----------------------------------------------- the parent dashboard (embedded)
InitDashboard ==
  /\ serviceType = "supabase"
  /\ session \in {"p1", "p2"}
  /\ token = NULL
  /\ auth_users = UserIds
  /\ user_profiles = SeedProfiles
  /\ families = SeedFamilies
  /\ activities = {}
  /\ rewards \in {{}, SeedRewards}
  /\ point_entries = {}
  /\ reward_redemptions = {}
  /\ now = 1
  /\ last = NoCall
  /\ AuxInit

Kids == {p \in SeedProfiles : p.role = "kid"}
\* the category field of a new activity: left out, or given
GivenCategories == {"omitted", "obligation"}

NextDashboard ==
  \/ createPointEntry(EntryIds, Kids, PointValues, Statuses)
  \/ createActivity(RowIds, FamilyIds, {"Chores"}, GivenCategories)
  \/ fetchKidsWithPoints(FamilyIds)
  \/ fetchPendingActivities(FamilyIds)
  \/ fetchDashboardStats(FamilyIds)

SpecDashboard == InitDashboard /\ [][NextDashboard]_vars

\* ---------------------------------- embedded data service: the other operations
\* .delete().eq("id", id): no .single(), so deleting nothing is no error
DeleteById(rows, uid, id, fault, referenced) ==
  LET hit == Manageable(uid, MatchId(rows, id)) IN
  IF fault THEN [error |-> BackendError, rows |-> rows]
  ELSE IF hit # {} /\ referenced THEN [error |-> ConstraintError, rows |-> rows]
  ELSE [error |-> NULL, rows |-> rows \ hit]

\* if (error) throw error; return { data: null, error: null }
ReturnedNull(res) == IF res.error # NULL THEN Caught(res.error) ELSE OkNull

\* .select("*").eq("family_id", familyId)[.eq("user_id", userId)]
\*   .order("created_at", { ascending: false }): the lists the store may return
ListColumns == {"family_id", "created_at"}

FetchColumns(userId) ==
  ListColumns \cup (IF userId = NULL THEN {} ELSE {"user_id"})

\* The select without .eq("family_id", familyId), for comparison.
SelectAnyFamily(t, rows, uid, familyId, userId, fault) ==
  IF fault \/ ~ColumnsExist(t, FetchColumns(userId)) THEN {<<>>}
  ELSE {o \in Orders({r \in rows : /\ CanSelect(uid, r)
                                   /\ (userId = NULL \/ r.user_id = userId)}) :
          IsDescending(o)}

SelectByFamily(t, rows, uid, familyId, userId, fault) ==
  IF fault \/ ~ColumnsExist(t, FetchColumns(userId)) THEN {<<>>}
  ELSE {o \in Orders({r \in rows : /\ CanSelect(uid, r)
                                   /\ r.family_id = familyId
                                   /\ (userId = NULL \/ r.user_id = userId)}) :
          IsDescending(o)}

\* if (error) throw error; return { data: data || [], error: null }
FetchEnvelope(t, userId, fault, list) ==
  IF fault THEN Caught(BackendError)
  ELSE IF ~ColumnsExist(t, FetchColumns(userId)) THEN Caught(ColumnError)
  ELSE Ok(list)

fetchActivities(fams) ==
  /\ Supabase
  /\ \E familyId \in fams, fault \in BOOLEAN :
       \E list \in SelectByFamily("activities", activities, session, familyId, NULL, fault) :
         last' = Call("fetchActivities", [family_id |-> familyId], fault, {},
                      FetchEnvelope("activities", NULL, fault, list))
  /\ UNCHANGED <<aux, client, store, now>>

fetchRewards(fams) ==
  /\ Supabase
  /\ \E familyId \in fams, fault \in BOOLEAN :
       \E list \in SelectByFamily("rewards", rewards, session, familyId, NULL, fault) :
         last' = Call("fetchRewards", [family_id |-> familyId], fault, {},
                      FetchEnvelope("rewards", NULL, fault, list))
  /\ UNCHANGED <<aux, client, store, now>>

fetchPointEntries(fams, users) ==
  /\ Supabase
  /\ \E familyId \in fams, userId \in users \cup {NULL}, fault \in BOOLEAN :
       \E list \in SelectByFamily("point_entries", point_entries, session, familyId,
                                  userId, fault) :
         last' = Call("fetchPointEntries", [family_id |-> familyId, user_id |-> userId],
                      fault, {}, FetchEnvelope("point_entries", userId, fault, list))
  /\ UNCHANGED <<aux, client, store, now>>

fetchRewardRedemptions(fams, users) ==
  /\ Supabase
  /\ \E familyId \in fams, userId \in users \cup {NULL}, fault \in BOOLEAN :
       \E list \in SelectByFamily("reward_redemptions", reward_redemptions, session,
                                  familyId, userId, fault) :
         last' = Call("fetchRewardRedemptions", [family_id |-> familyId, user_id |-> userId],
                      fault, {}, FetchEnvelope("reward_redemptions", userId, fault, list))
  /\ UNCHANGED <<aux, client, store, now>>

updateActivity(ids, patches) ==
  /\ Supabase
  /\ \E id \in ids, patch \in patches, fault \in BOOLEAN :
       LET res == UpdateSingle("activities", activities, session, id, patch, fault, TRUE)
       IN /\ activities' = res.rows
          /\ last' = Call("updateActivity", [id |-> id], fault, MatchId(activities, id),
                          Returned(res))
  /\ UNCHANGED <<aux, client, user_profiles, families, rewards,
                 point_entries, reward_redemptions, now>>

deleteActivity(ids) ==
  /\ Supabase
  /\ \E id \in ids, fault \in BOOLEAN :
       LET res == DeleteById(activities, session, id, fault,
                             \E e \in point_entries : e.activity_id = id)
       IN /\ activities' = res.rows
          /\ last' = Call("deleteActivity", [id |-> id], fault, MatchId(activities, id),
                          ReturnedNull(res))
  /\ UNCHANGED <<aux, client, user_profiles, families, rewards,
                 point_entries, reward_redemptions, now>>

\* Omit<Reward, ...> carries points_required; the table's column is point_cost
createReward(ids, fams, names) ==
  /\ Supabase
  /\ \E familyId \in fams, name \in names, id \in ids, fault \in BOOLEAN :
       LET row == [id |-> id, family_id |-> familyId, name |-> name, point_cost |-> 10,
                   created_by |-> session, created_at |-> now]
           cols == RewardFields
           res == InsertSingle("rewards", rewards, row, cols, fault, UserExists(session),
                               CanInsertManaged(session, row))
       IN /\ id \notin {r.id : r \in rewards}
          /\ rewards' = res.rows
          /\ last' = Call("createReward", [family_id |-> familyId, name |-> name],
                          fault, {}, Returned(res))
  /\ UNCHANGED <<aux, client, user_profiles, families, activities,
                 point_entries, reward_redemptions, now>>

updateReward(ids, patches) ==
  /\ Supabase
  /\ \E id \in ids, patch \in patches, fault \in BOOLEAN :
       LET res == UpdateSingle("rewards", rewards, session, id, patch, fault, TRUE)
       IN /\ rewards' = res.rows
          /\ last' = Call("updateReward", [id |-> id], fault, MatchId(rewards, id),
                          Returned(res))
  /\ UNCHANGED <<aux, client, user_profiles, families, activities,
                 point_entries, reward_redemptions, now>>

deleteReward(ids) ==
  /\ Supabase
  /\ \E id \in ids, fault \in BOOLEAN :
       LET res == DeleteById(rewards, session, id, fault,
                             \E e \in reward_redemptions : e.reward_id = id)
       IN /\ rewards' = res.rows
          /\ last' = Call("deleteReward", [id |-> id], fault, MatchId(rewards, id),
                          ReturnedNull(res))
  /\ UNCHANGED <<aux, client, user_profiles, families, activities,
                 point_entries, reward_redemptions, now>>

\* ------------------------------------------------- embedded auth service
AuthUserOf(uid) == [id |-> uid]

supabaseSignIn(users) ==
  /\ Supabase
  /\ \E u \in users, password \in BOOLEAN :
       LET accepted == password /\ u \in auth_users IN
       /\ session' = IF accepted THEN u ELSE session
       /\ last' = Call("signIn", [email |-> u], ~accepted, {},
                       IF accepted THEN Ok(<<AuthUserOf(u)>>)
                       ELSE Caught("Invalid login credentials"))
  /\ UNCHANGED <<aux, serviceType, token, auth_users, store, now>>

supabaseSignOut ==
  /\ Supabase
  /\ \E fault \in BOOLEAN :
       /\ session' = IF fault THEN session ELSE NULL
       /\ last' = Call("signOut", <<>>, fault, {},
                       IF fault THEN Caught(BackendError) ELSE OkNull)
  /\ UNCHANGED <<aux, serviceType, token, auth_users, store, now>>

\* `${displayName}'s Family`
FamilyName(displayName) == displayName \o "'s Family"

\* family_id: role === "parent" ? data.user.id : null
ProfileFor(uid, displayName, role) ==
  [user_id |-> uid, display_name |-> displayName, role |-> role,
   family_id |-> IF role = "parent" THEN uid ELSE NULL]

FamilyFor(uid, displayName) ==
  [id |-> uid, name |-> FamilyName(displayName), created_by |-> uid]

\* the columns the two inserts of signUp name
ProfileFields == {"user_id", "email", "display_name", "role", "family_id"}
FamilyFields == {"id", "name", "created_by"}

\* user_profiles: user_id UNIQUE, family_id REFERENCES families(id)
ProfileValid(row) ==
  /\ ~UserExists(row.user_id)
  /\ row.family_id = NULL \/ \E f \in families : f.id = row.family_id

\* families has policies FOR SELECT and FOR UPDATE only: no INSERT is permitted
CanInsertFamily(uid, row) == FALSE

supabaseSignUp(users, roles) ==
  /\ Supabase
  /\ \E u \in users, role \in roles, confirmed \in BOOLEAN, fault \in BOOLEAN :
       LET refused == fault \/ u \in auth_users
           uid == IF confirmed THEN u ELSE session
           profile == ProfileFor(u, "Nora", role)
           family == FamilyFor(u, "Nora")
           p == InsertSingle("user_profiles", user_profiles, profile,
                             ProfileFields,
                             FALSE, ProfileValid(profile), CanInsertManaged(uid, profile))
           f == InsertSingle("families", families, family, FamilyFields,
                             FALSE, ~\E x \in families : x.id = u,
                             CanInsertFamily(uid, family))
       IN IF refused
            THEN /\ UNCHANGED <<session, auth_users, user_profiles, families>>
                 /\ last' = Call("signUp", [email |-> u, role |-> role], TRUE, {},
                                 Caught("User already registered"))
            ELSE /\ auth_users' = auth_users \cup {u}
                 /\ session' = uid
                 /\ user_profiles' = p.rows
                 /\ families' = IF p.error = NULL /\ role = "parent" THEN f.rows ELSE families
                 /\ last' = Call("signUp", [email |-> u, role |-> role], FALSE, {},
                                 IF p.error # NULL THEN Caught(p.error)
                                 ELSE IF role = "parent" /\ f.error # NULL THEN Caught(f.error)
                                 ELSE Ok(<<AuthUserOf(u)>>))
  /\ UNCHANGED <<aux, serviceType, token, activities, rewards, point_entries,
                 reward_redemptions, now>>

\* profile?.role and the like, of no profile
NoProfile == [role |-> NULL, family_id |-> NULL, display_name |-> NULL]

\* Every store error thrown, for comparison.
FatalAlways(error) == error # NULL

\* if (error && error.code !== "PGRST116") throw error
Fatal(error) == error # NULL /\ error # SingleError

\* the error of .single(): the backend's, or PGRST116 when no row is visible
SingleErrorOf(hit, fault) ==
  IF fault THEN BackendError ELSE IF Cardinality(hit) # 1 THEN SingleError ELSE NULL

\* .select("role, family_id, display_name").eq("user_id", userId).single();
\* the store's "no rows" error (PGRST116) is not thrown
supabaseFetchUserProfile(users) ==
  /\ Supabase
  /\ \E userId \in users, fault \in BOOLEAN :
       LET hit == {p \in user_profiles : CanSelect(session, p) /\ p.user_id = userId}
           error == SingleErrorOf(hit, fault)
           found == IF error # NULL THEN NoProfile ELSE CHOOSE p \in hit : TRUE
       IN last' = Call("fetchUserProfile", [user_id |-> userId], fault, {},
                       IF Fatal(error) THEN Caught(error)
                       ELSE Ok(<<[id |-> userId, role |-> found.role,
                                  family_id |-> found.family_id,
                                  display_name |-> found.display_name]>>))
  /\ UNCHANGED <<aux, client, store, now>>

\* supabase.auth.getSession(): it answers with the session (or none), answers
\* with an error and no session, or raises. Nothing catches what it raises, so
\* the call is then recorded as failed (fault) with no value.
SessionLookups == {"answer", "error", "raise"}

supabaseGetSession ==
  /\ Supabase
  /\ \E lookup \in SessionLookups :
       last' = Call("getSession", [lookup |-> lookup], lookup = "raise", {},
                    IF lookup = "answer" /\ session # NULL THEN Ok(<<AuthUserOf(session)>>)
                    ELSE OkNull)
  /\ UNCHANGED <<aux, client, store, now>>

\* ------------------------------------------------------- remote-HTTP variant
\* What a request can come to: fetch() or response.json() throws, or a response
\* with a status (ok or not) and a JSON body.
RestResponses ==
  {r \in [kind : {"throw", "http"}, ok : BOOLEAN, message : {NULL, "", "denied"},
          data : {NULL, "value"}] :
     r.kind = "throw" => (r.ok /\ r.message = NULL /\ r.data = NULL)}

GenericFailure == "API request failed"

\* result.message || ...: the messages that count as absent
NoMessage == {NULL, ""}

\* A helper that passes the body's data on with a failed status, for comparison.
apiCallKeepingData(resp, payload) ==
  IF resp.kind = "throw" THEN Caught("Failed to fetch")
  ELSE [isnull |-> resp.data = NULL,
        data |-> IF resp.data = NULL THEN <<>> ELSE payload,
        error |-> IF resp.ok THEN NULL
                  ELSE IF resp.message \in NoMessage THEN GenericFailure ELSE resp.message]

\* A helper that reports every failed status with the generic string, for comparison.
apiCallGenericOnly(resp, payload) ==
  IF resp.kind = "throw" THEN Caught("Failed to fetch")
  ELSE IF ~resp.ok THEN [isnull |-> TRUE, data |-> <<>>, error |-> GenericFailure]
  ELSE [isnull |-> resp.data = NULL,
        data |-> IF resp.data = NULL THEN <<>> ELSE payload,
        error |-> NULL]

\* RestApiDataService.apiCall / RestApiAuthService.apiCall
apiCall(resp, payload) ==
  IF resp.kind = "throw" THEN Caught("Failed to fetch")
  ELSE IF ~resp.ok
    THEN [isnull |-> TRUE, data |-> <<>>,
          error |-> IF resp.message \in NoMessage THEN GenericFailure ELSE resp.message]
  ELSE [isnull |-> resp.data = NULL,
        data |-> IF resp.data = NULL THEN <<>> ELSE payload,
        error |-> NULL]

\* RestApiDataService.apiListCall: the same, with the body's count passed on
apiListCall(resp, payload) ==
  IF resp.kind = "throw" THEN Caught("Failed to fetch")
  ELSE IF ~resp.ok
    THEN [isnull |-> TRUE, data |-> <<>>,
          error |-> IF resp.message \in NoMessage THEN GenericFailure ELSE resp.message]
  ELSE [isnull |-> resp.data = NULL,
        data |-> IF resp.data = NULL THEN <<>> ELSE payload,
        error |-> NULL]

\* The requests of RestApiDataService: method, and what the path names
\* ("family": /families/:familyId/..., "id": /<table>/:id..., "body": /<table>).
RestListOps ==
  {"fetchKidsWithPoints", "fetchPendingActivities", "fetchActivities", "fetchRewards",
   "fetchPointEntries", "fetchRewardRedemptions"}

RestItemOps ==
  { [op |-> "fetchDashboardStats", method |-> "GET", path |-> "family"],
    [op |-> "createActivity", method |-> "POST", path |-> "body"],
    [op |-> "updateActivity", method |-> "PUT", path |-> "id"],
    [op |-> "deleteActivity", method |-> "DELETE", path |-> "id"],
    [op |-> "createReward", method |-> "POST", path |-> "body"],
    [op |-> "updateReward", method |-> "PUT", path |-> "id"],
    [op |-> "deleteReward", method |-> "DELETE", path |-> "id"],
    [op |-> "createPointEntry", method |-> "POST", path |-> "body"],
    [op |-> "updatePointEntry", method |-> "PUT", path |-> "id"],
    [op |-> "approvePointEntry", method |-> "POST", path |-> "id"],
    [op |-> "createRewardRedemption", method |-> "POST", path |-> "body"],
    [op |-> "approveRewardRedemption", method |-> "POST", path |-> "id"] }

restListCall ==
  /\ Rest
  /\ \E op \in RestListOps, resp \in RestResponses :
       last' = Call(op, [method |-> "GET", path |-> "family", bearer |-> token, requests |-> 1],
                    resp, {},
                    apiListCall(resp, <<"rows">>))
  /\ UNCHANGED <<aux, client, store, now>>

restItemCall ==
  /\ Rest
  /\ \E o \in RestItemOps, resp \in RestResponses :
       last' = Call(o.op,
                    [method |-> o.method, path |-> o.path, bearer |-> token, requests |-> 1],
                    resp, {},
                    apiCall(resp, <<"row">>))
  /\ UNCHANGED <<aux, client, store, now>>

Tokens == {"t1", "t2"}

\* RestApiAuthService.signIn / signUp: result.data ? store the token : pass the error on
SignedIn(result) ==
  IF ~result.isnull THEN Ok(<<result.data[1].user>>)
  ELSE [isnull |-> TRUE, data |-> <<>>, error |-> result.error]

\* the requests of RestApiAuthService: 'Authorization': `Bearer ${this.apiKey}`
SignInRequest == [method |-> "POST", path |-> "signin", bearer |-> "apiKey", requests |-> 1]
SignUpRequest == [method |-> "POST", path |-> "signup", bearer |-> "apiKey", requests |-> 1]
ProfileRequest == [method |-> "GET", path |-> "profile", bearer |-> "apiKey", requests |-> 1]
NoRequest == [lookup |-> "none", bearer |-> NULL, requests |-> 0]

\* With no listener registered notifyAuthStateChange does nothing, and signIn,
\* signUp and signOut are one step each; so are a signIn and a signUp that do
\* not reach notifyAuthStateChange.
restSignIn(users) ==
  /\ Rest
  /\ ~notify.active
  /\ \E u \in users, t \in Tokens, resp \in RestResponses :
       LET result == apiCall(resp, <<[user |-> AuthUserOf(u), token |-> t]>>) IN
       /\ authStateCallbacks = <<>> \/ result.isnull
       /\ token' = IF ~result.isnull THEN t ELSE token
       /\ last' = Call("signIn", SignInRequest, resp, {}, SignedIn(result))
  /\ UNCHANGED <<aux, serviceType, session, auth_users, store, now>>

restSignUp(users) ==
  /\ Rest
  /\ ~notify.active
  /\ \E u \in users, t \in Tokens, resp \in RestResponses :
       LET result == apiCall(resp, <<[user |-> AuthUserOf(u), token |-> t]>>) IN
       /\ authStateCallbacks = <<>> \/ result.isnull
       /\ token' = IF ~result.isnull THEN t ELSE token
       /\ last' = Call("signUp", SignUpRequest, resp, {}, SignedIn(result))
  /\ UNCHANGED <<aux, serviceType, session, auth_users, store, now>>

restSignOut ==
  /\ Rest
  /\ ~notify.active
  /\ authStateCallbacks = <<>>
  /\ token' = NULL
  /\ last' = Call("signOut", <<>>, FALSE, {}, OkNull)
  /\ UNCHANGED <<aux, serviceType, session, auth_users, store, now>>

\* ---------------------------------------- remote-HTTP variant: listeners
\* The callback functions a caller may pass, and how many registrations are made.
Callbacks == {"f", "g"}
MaxListeners == 3

\* this.authStateCallbacks.indexOf(callback), counted from 1; 0 when absent
IndexOf(callbacks, cb) ==
  IF \E i \in DOMAIN callbacks : callbacks[i].cb = cb
    THEN CHOOSE i \in DOMAIN callbacks :
           /\ callbacks[i].cb = cb
           /\ \A j \in 1..(i - 1) : callbacks[j].cb # cb
    ELSE 0

\* this.authStateCallbacks.splice(index, 1)
Splice(callbacks, index) ==
  [i \in 1..(Len(callbacks) - 1) |-> IF i < index THEN callbacks[i] ELSE callbacks[i + 1]]

\* the body of a handle's unsubscribe(): if (index > -1) splice(index, 1)
Unsubscribed(callbacks, handle) ==
  IF IndexOf(callbacks, handle.cb) > 0
    THEN Splice(callbacks, IndexOf(callbacks, handle.cb))
    ELSE callbacks

\* the registrations held in the array
Registered(callbacks) == {callbacks[i].reg : i \in DOMAIN callbacks}

\* this.authStateCallbacks.push(callback); return { unsubscribe }. Each
\* registration carries a tag (reg) that the array itself does not hold: the
\* array holds the function only.
onAuthStateChange(cbs) ==
  /\ Rest
  /\ ~notify.active
  /\ Cardinality(handles) < MaxListeners
  /\ \E cb \in cbs :
       LET h == [cb |-> cb, reg |-> Cardinality(handles) + 1] IN
       /\ authStateCallbacks' = Append(authStateCallbacks, h)
       /\ handles' = handles \cup {h}
       /\ last' = Call("onAuthStateChange", h, FALSE, {}, OkNull)
  /\ UNCHANGED <<wiring, provider, stats, notify, delivered, client, store, now>>

\* a handle's unsubscribe(), called outside any callback; matched records the
\* registrations it took out of the array
unsubscribe ==
  /\ Rest
  /\ ~notify.active
  /\ \E h \in handles :
       /\ authStateCallbacks' = Unsubscribed(authStateCallbacks, h)
       /\ last' = Call("unsubscribe",
                       [cb |-> h.cb, reg |-> h.reg,
                        registered |-> h.reg \in Registered(authStateCallbacks)],
                       FALSE,
                       Registered(authStateCallbacks)
                         \ Registered(Unsubscribed(authStateCallbacks, h)),
                       OkNull)
  /\ UNCHANGED <<wiring, provider, stats, handles, notify, delivered, client, store, now>>

\* notifyAuthStateChange entered: forEach reads the length once and starts at
\* the first index; call is what the operation returns when the loop is over
\* (stored: the token of result.data, none for a sign-out)
Notifying(event, user, stored, call) ==
  [active |-> TRUE, event |-> event, session |-> user, stored |-> stored, k |-> 1,
   len |-> Len(authStateCallbacks), call |-> call]

\* A token written only after the listeners have run, for comparison.
setItemLater(old, new) == old

\* localStorage.setItem('auth_token', result.data.token), before notifyAuthStateChange
setItem(old, new) == new

\* signIn with result.data and listeners registered: setItem, then notify
restSignInNotify(users) ==
  /\ Rest
  /\ ~notify.active
  /\ authStateCallbacks # <<>>
  /\ \E u \in users, t \in Tokens, resp \in RestResponses :
       LET result == apiCall(resp, <<[user |-> AuthUserOf(u), token |-> t]>>) IN
       /\ ~result.isnull
       /\ token' = setItem(token, t)
       /\ notify' = Notifying("SIGNED_IN", u, t,
                              Call("signIn", SignInRequest, resp,
                                   Registered(authStateCallbacks), SignedIn(result)))
  /\ delivered' = <<>>
  /\ UNCHANGED <<wiring, provider, stats, authStateCallbacks, handles, serviceType, session, auth_users,
                 store, now, last>>

restSignUpNotify(users) ==
  /\ Rest
  /\ ~notify.active
  /\ authStateCallbacks # <<>>
  /\ \E u \in users, t \in Tokens, resp \in RestResponses :
       LET result == apiCall(resp, <<[user |-> AuthUserOf(u), token |-> t]>>) IN
       /\ ~result.isnull
       /\ token' = setItem(token, t)
       /\ notify' = Notifying("SIGNED_UP", u, t,
                              Call("signUp", SignUpRequest, resp,
                                   Registered(authStateCallbacks), SignedIn(result)))
  /\ delivered' = <<>>
  /\ UNCHANGED <<wiring, provider, stats, authStateCallbacks, handles, serviceType, session, auth_users,
                 store, now, last>>

\* signOut with listeners registered: removeItem, then notify('SIGNED_OUT', null)
restSignOutNotify ==
  /\ Rest
  /\ ~notify.active
  /\ authStateCallbacks # <<>>
  /\ token' = NULL
  /\ notify' = Notifying("SIGNED_OUT", NULL, NULL,
                         Call("signOut", <<>>, FALSE, Registered(authStateCallbacks),
                              OkNull))
  /\ delivered' = <<>>
  /\ UNCHANGED <<wiring, provider, stats, authStateCallbacks, handles, serviceType, session, auth_users,
                 store, now, last>>

\* what a callback may do while it runs: nothing, or call unsubscribe() of one
\* of the handles (its own or another's)
AfterCallback(callbacks) ==
  {callbacks} \cup {Unsubscribed(callbacks, h) : h \in handles}

\* one turn of authStateCallbacks.forEach(callback => callback(event, session)):
\* index k is visited when the array still has it, and skipped otherwise;
\* bearer is the token a data-service call made by the callback would read
notifyStep ==
  /\ notify.active
  /\ notify.k <= notify.len
  /\ IF notify.k <= Len(authStateCallbacks)
       THEN /\ delivered' = Append(delivered,
                                   [reg |-> authStateCallbacks[notify.k].reg,
                                    event |-> notify.event,
                                    session |-> notify.session,
                                    bearer |-> token])
            /\ authStateCallbacks' \in AfterCallback(authStateCallbacks)
       ELSE UNCHANGED <<delivered, authStateCallbacks>>
  /\ notify' = [notify EXCEPT !.k = notify.k + 1]
  /\ UNCHANGED <<wiring, provider, stats, handles, client, store, now, last>>

\* the loop is over: the operation returns
notifyReturn ==
  /\ notify.active
  /\ notify.k > notify.len
  /\ last' = notify.call
  /\ notify' = NoNotify
  /\ UNCHANGED <<wiring, provider, stats, authStateCallbacks, handles, delivered, client, store, now>>

\* how the GET /auth/me of getSession went
LookupOf(resp) ==
  IF resp.kind = "throw" THEN "raise" ELSE IF ~resp.ok THEN "error" ELSE "answer"

\* A check that never finds the token missing, for comparison.
HasTokenAlways(t) == TRUE

\* const token = localStorage.getItem('auth_token'); if (!token) ...
HasToken(t) == t # NULL

\* if (!token) return { user: null }; ... return { user: result.data }
\* The request to /auth/me goes through RestApiAuthService.apiCall, whose
\* Authorization header is built from this.apiKey.
restGetSession(users) ==
  /\ Rest
  /\ IF ~HasToken(token)
       THEN last' = Call("getSession", NoRequest, FALSE, {}, OkNull)
       ELSE \E u \in users, resp \in RestResponses :
              LET result == apiCall(resp, <<AuthUserOf(u)>>) IN
              last' = Call("getSession",
                           [lookup |-> LookupOf(resp), bearer |-> "apiKey", requests |-> 1],
                           FALSE, {},
                           [isnull |-> result.isnull, data |-> result.data, error |-> NULL])
  /\ UNCHANGED <<aux, client, store, now>>

restFetchUserProfile(users) ==
  /\ Rest
  /\ \E u \in users, resp \in RestResponses :
       last' = Call("fetchUserProfile", ProfileRequest, resp, {},
                    apiCall(resp, <<AuthUserOf(u)>>))
  /\ UNCHANGED <<aux, client, store, now>>

\* ------------------------------------------------ both services, both variants
\* rows of the other family, provisioned with the store
ForeignId == 0 - 2

ForeignActivity ==
  [id |-> ForeignId, family_id |-> "p2", name |-> "Homework", category |-> "obligation",
   points |-> 10, created_by |-> "p2", created_at |-> 1]

ForeignEntry ==
  [id |-> ForeignId, family_id |-> "p2", user_id |-> "p2", activity_id |-> 0,
   points |-> 10, status |-> "pending", approved_at |-> 0, approved_by |-> NULL]

ForeignRedemption ==
  [id |-> ForeignId, family_id |-> "p2", user_id |-> "p2", reward_id |-> ForeignId,
   points_spent |-> 10, status |-> "pending", approved_at |-> 0, approved_by |-> NULL]

Init ==
  /\ serviceType \in ServiceTypes
  /\ session = NULL
  /\ token = NULL
  /\ auth_users = UserIds
  /\ user_profiles = SeedProfiles
  /\ families = SeedFamilies
  /\ activities = {ForeignActivity}
  /\ rewards = SeedRewards
  /\ point_entries = {ForeignEntry}
  /\ reward_redemptions = {ForeignRedemption}
  /\ now = 1
  /\ last = NoCall
  /\ AuxInit

LocalUsers == {"p1", "k1"}
AnyIds == RowIds \cup {ForeignId}
Mine == {"p1"}
NewUsers == {"n1"}
SignUpRoles == {"parent", "kid"}
LookedUp == {"k1", "n1"}

Next ==
  \/ supabaseSignIn(LocalUsers)
  \/ supabaseSignOut
  \/ supabaseSignUp(NewUsers, SignUpRoles)
  \/ supabaseFetchUserProfile(LookedUp)
  \/ fetchKidsWithPoints(Mine)
  \/ fetchPendingActivities(Mine)
  \/ fetchDashboardStats(Mine)
  \/ fetchActivities(Mine)
  \/ createActivity(RowIds, Mine, {"Chores"}, {"obligation"})
  \/ updateActivity(AnyIds, {[name |-> "Dishes"]})
  \/ deleteActivity(AnyIds)
  \/ fetchRewards(Mine)
  \/ createReward(RowIds, Mine, {"Trip"})
  \/ updateReward(AnyIds, {[name |-> "Trip"]})
  \/ deleteReward(AnyIds)
  \/ fetchPointEntries(Mine, {"k1"})
  \/ createPointEntry(RowIds, {Profile("k1")}, {10}, {"pending"})
  \/ updatePointEntry(AnyIds, {[status |-> "approved"]})
  \/ approvePointEntry(AnyIds, {"p1"})
  \/ fetchRewardRedemptions(Mine, {"k1"})
  \/ createRewardRedemption(RowIds, {Profile("k1")}, {"pending"})
  \/ approveRewardRedemption(AnyIds, {"p1"})
  \/ restListCall
  \/ restItemCall
  \/ restSignIn(LocalUsers)
  \/ restSignUp({"n1"})
  \/ restSignOut
  \/ restFetchUserProfile(LocalUsers)

Spec == Init /\ [][Next]_vars

\* ------------------------------ fetchDashboardStats, one query at a time
\* Promise.all issues the four count queries together; the store answers each
\* at its own time, and other operations may run in between.
NoCount == 0 - 1

\* the count query q as the store answers it now
CountOf(q, uid, familyId) ==
  CASE q = "kids" -> KidsCount(uid, familyId)
    [] q = "activities" -> ActivitiesCount(uid, familyId)
    [] q = "rewards" -> RewardsCount(uid, familyId)
    [] q = "pending" -> PendingCount(uid, familyId)

\* what the four queries would count if all were answered now
Snapshot(uid, familyId) == [q \in StatsQueries |-> CountOf(q, uid, familyId)]

\* x.count || 0
CountField(counts, q) ==
  IF q \in DOMAIN counts /\ counts[q] # NoCount THEN counts[q] ELSE 0

StatsOfCounts(counts) ==
  [totalKids |-> CountField(counts, "kids"),
   totalActivities |-> CountField(counts, "activities"),
   totalRewards |-> CountField(counts, "rewards"),
   pendingApprovals |-> CountField(counts, "pending")]

statsIssue(fams) ==
  /\ Supabase
  /\ stats.state # "running"
  /\ \E familyId \in fams :
       stats' = [state |-> "running", family_id |-> familyId, pending |-> StatsQueries,
                 counts |-> <<>>, at |-> <<>>]
  /\ UNCHANGED <<wiring, provider, authStateCallbacks, handles, notify, delivered, client, store, now, last>>

\* one query resolves, with its count or with an error and a null count
statsAnswer ==
  /\ stats.state = "running"
  /\ \E q \in stats.pending, failed \in BOOLEAN :
       stats' = [stats EXCEPT
                   !.pending = @ \ {q},
                   !.counts = (q :> (IF failed THEN NoCount
                                     ELSE CountOf(q, session, stats.family_id))) @@ @,
                   !.at = (q :> Snapshot(session, stats.family_id)) @@ @]
  /\ UNCHANGED <<wiring, provider, authStateCallbacks, handles, notify, delivered, client, store, now, last>>

\* A resumption as soon as one query has resolved, for comparison.
AnyResolved(pending) == pending # StatsQueries

\* await Promise.all([...]) resumes when every query has resolved
AllResolved(pending) == pending = {}

statsReturn ==
  /\ stats.state = "running"
  /\ AllResolved(stats.pending)
  /\ stats' = [stats EXCEPT !.state = "done"]
  /\ last' = Call("fetchDashboardStats", [family_id |-> stats.family_id],
                  NoFailure, {},
                  Ok(<<StatsOfCounts(stats.counts)>>))
  /\ UNCHANGED <<wiring, provider, authStateCallbacks, handles, notify, delivered, client, store, now>>

\* a query's promise rejects: Promise.all rejects at once and the catch returns
statsReject ==
  /\ stats.state = "running"
  /\ \E q \in stats.pending :
       /\ stats' = [stats EXCEPT !.state = "failed"]
       /\ last' = Call("fetchDashboardStats", [family_id |-> stats.family_id],
                       [kind |-> "reject", query |-> q], {}, Caught(BackendError))
  /\ UNCHANGED <<wiring, provider, authStateCallbacks, handles, notify, delivered, client, store, now>>

InitStats ==
  /\ serviceType = "supabase"
  /\ session = "p1"
  /\ token = NULL
  /\ auth_users = UserIds
  /\ user_profiles = SeedProfiles
  /\ families = SeedFamilies
  /\ activities = {}
  /\ rewards = SeedRewards
  /\ point_entries = {}
  /\ reward_redemptions = {}
  /\ now = 1
  /\ last = NoCall
  /\ AuxInit

NextStats ==
  \/ statsIssue(Mine)
  \/ statsAnswer
  \/ statsReturn
  \/ statsReject
  \/ createActivity(RowIds, Mine, {"Chores"}, {"obligation"})
  \/ createPointEntry(RowIds, {Profile("k1")}, {10}, {"pending"})
  \/ approvePointEntry(RowIds, {"p1"})

SpecStats == InitStats /\ [][NextStats]_vars

\* ------------------------------------------- the activity catalogue (embedded)
InitActivities ==
  /\ serviceType = "supabase"
  /\ session \in {"p1", "p2"}
  /\ token = NULL
  /\ auth_users = UserIds
  /\ user_profiles = SeedProfiles
  /\ families = SeedFamilies
  /\ activities = {ForeignActivity}
  /\ rewards = SeedRewards
  /\ point_entries = {}
  /\ reward_redemptions = {}
  /\ now = 1
  /\ last = NoCall
  /\ AuxInit

NextActivities ==
  \/ Tick
  \/ createActivity(RowIds, FamilyIds, {"Chores"}, GivenCategories)
  \/ fetchActivities(FamilyIds)
  \/ updateActivity(AnyIds, {[name |-> "Dishes"]})
  \/ deleteActivity(AnyIds)

SpecActivities == InitActivities /\ [][NextActivities]_vars

\* -------------------------------------- the auth service, both variants
InitAuth ==
  /\ serviceType \in ServiceTypes
  /\ session = NULL
  /\ token = NULL
  /\ auth_users = UserIds
  /\ user_profiles = SeedProfiles
  /\ families = SeedFamilies
  /\ activities = {}
  /\ rewards = {}
  /\ point_entries = {}
  /\ reward_redemptions = {}
  /\ now = 1
  /\ last = NoCall
  /\ AuxInit

NextAuth ==
  \/ supabaseGetSession
  \/ supabaseSignIn(LocalUsers)
  \/ supabaseSignUp(NewUsers, SignUpRoles)
  \/ supabaseSignOut
  \/ supabaseFetchUserProfile(LookedUp)
  \/ restGetSession(LocalUsers)
  \/ restSignIn(LocalUsers)
  \/ restSignUp(NewUsers)
  \/ restSignOut
  \/ restFetchUserProfile(LocalUsers)

SpecAuth == InitAuth /\ [][NextAuth]_vars

OneUser == {"p1"}

\* ------------------------------------------------------ the service factory
InitFactory ==
  /\ serviceType = "supabase"
  /\ session = NULL
  /\ token = NULL
  /\ auth_users = UserIds
  /\ user_profiles = SeedProfiles
  /\ families = SeedFamilies
  /\ activities = {}
  /\ rewards = {}
  /\ point_entries = {}
  /\ reward_redemptions = {}
  /\ now = 1
  /\ last = NoCall
  /\ ServicesInit
  /\ ProviderInit
  /\ processEnv \in Envs
  /\ factory = NoFactory
  /\ exports = NoExports
  /\ instances = NoInstances

NextFactory ==
  \/ getInstance
  \/ getAuthService
  \/ getDataService
  \/ reset
  \/ setEnv(Envs)

SpecFactory == InitFactory /\ [][NextFactory]_vars

\* ------------------------------------------------------- the AuthProvider
InitProvider ==
  /\ serviceType \in ServiceTypes
  /\ session = NULL
  /\ token = NULL
  /\ auth_users = UserIds
  /\ user_profiles = SeedProfiles
  /\ families = SeedFamilies
  /\ activities = {}
  /\ rewards = {}
  /\ point_entries = {}
  /\ reward_redemptions = {}
  /\ now = 1
  /\ last = NoCall
  /\ AuxInit

NextProvider ==
  \/ providerMount
  \/ sessionResolves(LocalUsers)
  \/ authEventUser(LocalUsers)
  \/ authEventNoUser
  \/ profileResolves
  \/ providerUnmount

SpecProvider == InitProvider /\ [][NextProvider]_vars

\* ---------------------- the remote-HTTP variant: requests and the token
InitRest ==
  /\ serviceType = "rest-api"
  /\ session = NULL
  /\ token = NULL
  /\ auth_users = UserIds
  /\ user_profiles = SeedProfiles
  /\ families = SeedFamilies
  /\ activities = {}
  /\ rewards = {}
  /\ point_entries = {}
  /\ reward_redemptions = {}
  /\ now = 1
  /\ last = NoCall
  /\ AuxInit

NextRest ==
  \/ restSignIn(OneUser)
  \/ restSignUp(OneUser)
  \/ restSignOut
  \/ restGetSession(OneUser)
  \/ restFetchUserProfile(OneUser)
  \/ restListCall
  \/ restItemCall

SpecRest == InitRest /\ [][NextRest]_vars

\* ------------------------------- the listeners of the remote-HTTP variant
InitListeners ==
  /\ serviceType = "rest-api"
  /\ session = NULL
  /\ token = NULL
  /\ auth_users = UserIds
  /\ user_profiles = SeedProfiles
  /\ families = SeedFamilies
  /\ activities = {}
  /\ rewards = {}
  /\ point_entries = {}
  /\ reward_redemptions = {}
  /\ now = 1
  /\ last = NoCall
  /\ AuxInit

NextListeners ==
  \/ onAuthStateChange(Callbacks)
  \/ unsubscribe
  \/ restSignIn(OneUser)
  \/ restSignInNotify(OneUser)
  \/ restSignUp(OneUser)
  \/ restSignUpNotify(OneUser)
  \/ restSignOut
  \/ restSignOutNotify
  \/ notifyStep
  \/ notifyReturn

SpecListeners == InitListeners /\ [][NextListeners]_vars

\* ================================================================ properties
Approvals == {"approvePointEntry", "approveRewardRedemption"}

Decided == {"approved", "rejected"}

IdOnlyOps ==
  {"updateActivity", "deleteActivity", "updateReward", "deleteReward",
   "updatePointEntry", "approvePointEntry", "approveRewardRedemption"}

TableOf(op) == IF op = "approvePointEntry" THEN point_entries ELSE reward_redemptions

\* the store took the update of the last call: no backend fault, and the
\* caller is a parent of the row's family
Accepted(r) == ~last.fault /\ CanManage(session, r)

\* C1: every envelope an auth-service or data-service operation returns, in
\* either variant, has null data whenever its error is non-null.
C1_ErrorImpliesNullData == last.env.error # NULL => last.env.isnull

\* an operation of the remote-HTTP variant came back with an error (and null data)
C1_Witness ==
  /\ Rest
  /\ last.op = "updateActivity"
  /\ last.env.error = "denied"
  /\ last.env.isnull

\* C2: every row that the filter of an id-only data-service operation selects
\* belongs to a family of the caller, i.e. the operation filters on family_id.
C2_IdOnlyOpsFilterOnFamily ==
  [][(/\ last' # last
      /\ Supabase
      /\ last'.op \in IdOnlyOps
      /\ MyFamilies(session') # {})
       => \A r \in last'.matched : r.family_id \in MyFamilies(session')]_vars

\* C3: the status of a point entry or a reward redemption only ever changes
\* from pending to approved or from pending to rejected.
C3_StatusOneWay ==
  [][/\ \A e \in point_entries : \A f \in point_entries' :
          (e.id = f.id /\ e.status # f.status)
            => (e.status = "pending" /\ f.status \in Decided)
     /\ \A e \in reward_redemptions : \A f \in reward_redemptions' :
          (e.id = f.id /\ e.status # f.status)
            => (e.status = "pending" /\ f.status \in Decided)]_vars

\* C4: approvePointEntry / approveRewardRedemption on an existing pending row
\* returns, with a null error, the row with status approved or rejected as the
\* flag says, a non-null approved_at and approved_by = approvedBy; the stored
\* row is that row.
C4_ApprovalStamps ==
  (/\ last.op \in Approvals
   /\ \E r \in last.matched : r.status = "pending" /\ Accepted(r))
    => /\ last.env.error = NULL
       /\ ~last.env.isnull
       /\ Len(last.env.data) = 1
       /\ last.env.data[1].status = (IF last.args.approved THEN "approved" ELSE "rejected")
       /\ last.env.data[1].approved_at # 0
       /\ last.env.data[1].approved_by = last.args.approvedBy
       /\ last.env.data[1].id = last.args.id
       /\ {r \in TableOf(last.op) : r.id = last.args.id} = {last.env.data[1]}

\* a pending point entry was rejected by the parent
C4_Witness ==
  /\ last.op = "approvePointEntry"
  /\ ~last.args.approved
  /\ \E r \in last.matched : r.status = "pending" /\ Accepted(r)
  /\ \E e \in point_entries :
       e.id = last.args.id /\ e.status = "rejected" /\ e.approved_by = last.args.approvedBy

\* the row already carries what an earlier call with the same arguments set
AlreadySet(r) ==
  /\ r.status = (IF last.args.approved THEN "approved" ELSE "rejected")
  /\ r.approved_by = last.args.approvedBy
  /\ r.approved_at # 0

\* C5: approvePointEntry called again with the same arguments succeeds with a
\* null error and leaves the row as it was, except for approved_at.
C5_ApproveTwice ==
  (/\ last.op = "approvePointEntry"
   /\ \E r \in last.matched : AlreadySet(r) /\ Accepted(r))
    => /\ last.env.error = NULL
       /\ Len(last.env.data) = 1
       /\ \A r \in last.matched :
            \A c \in DOMAIN r \ {"approved_at"} : last.env.data[1][c] = r[c]
       /\ last.env.data[1] \in point_entries

\* the second call re-stamped approved_at with a later time
C5_Witness ==
  /\ last.op = "approvePointEntry"
  /\ last.env.error = NULL
  /\ \E r \in last.matched :
       /\ AlreadySet(r) /\ Accepted(r)
       /\ last.env.data[1].approved_at > r.approved_at
       /\ last.env.data[1].status = r.status

ApprovedEntriesOf(userId) ==
  {e \in point_entries : e.user_id = userId /\ e.status = "approved"}

\* C6: each kid fetchKidsWithPoints returns has total_points equal to the sum
\* of the points of that kid's approved point entries.
C6_TotalIsApprovedSum ==
  (last.op = "fetchKidsWithPoints" /\ last.env.error = NULL)
    => \A i \in 1..Len(last.env.data) :
         last.env.data[i].total_points = SumPoints(ApprovedEntriesOf(last.env.data[i].id))

\* a returned kid has an approved entry and one that is not approved, and the
\* other kid has an entry too
C6_Witness ==
  /\ last.op = "fetchKidsWithPoints"
  /\ last.env.error = NULL
  /\ \E i \in 1..Len(last.env.data) :
       /\ last.env.data[i].total_points # 0
       /\ \E e \in point_entries :
            e.user_id = last.env.data[i].id /\ e.status # "approved" /\ e.points # 0

FamilyKids(familyId) ==
  {p \in user_profiles : p.role = "kid" /\ p.family_id = familyId}

\* C7: fetchKidsWithPoints returns exactly one Kid for every kid profile of
\* the family, a kid with no approved point entry included.
C7_OneKidPerKidProfile ==
  (/\ last.op = "fetchKidsWithPoints"
   /\ ~last.fault
   /\ last.args.family_id \in MyFamilies(session))
    => /\ last.env.error = NULL
       /\ {last.env.data[i].id : i \in 1..Len(last.env.data)}
            = {p.user_id : p \in FamilyKids(last.args.family_id)}
       /\ Len(last.env.data) = Cardinality(FamilyKids(last.args.family_id))

\* C8: fetchPendingActivities returns, with a null error, one PendingActivity
\* for each pending point entry of the family and for no other entry.
C8_PendingListed ==
  (/\ last.op = "fetchPendingActivities"
   /\ ~last.fault
   /\ last.args.family_id \in MyFamilies(session))
    => /\ last.env.error = NULL
       /\ {last.env.data[i].id : i \in 1..Len(last.env.data)}
            = {e.id : e \in {x \in point_entries :
                               x.family_id = last.args.family_id /\ x.status = "pending"}}

\* all four count queries of the last fetchDashboardStats answered with a count
Counted ==
  /\ last.op = "fetchDashboardStats"
  /\ last.fault.kind = "none"
  /\ last.args.family_id \in MyFamilies(session)

\* C9: with no query failing, fetchDashboardStats returns the numbers of the
\* family's kid profiles, activities, rewards and pending point entries (all 0
\* for a family with none), and a null error.
C9_StatsAreCounts ==
  Counted
    => /\ last.env.error = NULL
       /\ Len(last.env.data) = 1
       /\ last.env.data[1] =
            [totalKids |-> Cardinality(FamilyKids(last.args.family_id)),
             totalActivities |->
               Cardinality({a \in activities : a.family_id = last.args.family_id}),
             totalRewards |->
               Cardinality({r \in rewards : r.family_id = last.args.family_id}),
             pendingApprovals |->
               Cardinality({e \in point_entries :
                              e.family_id = last.args.family_id /\ e.status = "pending"})]

\* stats of a family with kids, an activity, a reward and a pending entry
C9_Witness ==
  /\ Counted
  /\ last.env.data[1].totalKids = 2
  /\ last.env.data[1].totalActivities = 1
  /\ last.env.data[1].totalRewards = 1
  /\ last.env.data[1].pendingApprovals > 0

\* C10: when a count query of fetchDashboardStats fails, the envelope has a
\* non-null error and null data.
C10_FailedCountIsError ==
  (last.op = "fetchDashboardStats" /\ last.fault.kind # "none")
    => (last.env.error # NULL /\ last.env.isnull)

\* the last call is a fetchDashboardStats that returned its stats object
StatsReturned ==
  /\ stats.state = "done"
  /\ last.op = "fetchDashboardStats"
  /\ last.env.error = NULL

QueryField ==
  [kids |-> "totalKids", activities |-> "totalActivities", rewards |-> "totalRewards",
   pending |-> "pendingApprovals"]

\* C11: fetchDashboardStats produces its stats only after all four queries
\* have completed, and each number is what its own query counted when it was
\* answered, with no agreement between the four.
C11_StatsCountedSeparately ==
  StatsReturned
    => /\ stats.pending = {}
       /\ DOMAIN stats.counts = StatsQueries
       /\ \A q \in StatsQueries :
            last.env.data[1][QueryField[q]] =
              (IF stats.counts[q] = NoCount THEN 0 ELSE stats.at[q][q])

\* rows were created while the call was in flight, and the stats returned are
\* those of the store at none of the moments a query was answered
C11_Witness ==
  /\ StatsReturned
  /\ \A q \in StatsQueries : stats.counts[q] # NoCount
  /\ \A q \in StatsQueries : StatsOfCounts(stats.at[q]) # last.env.data[1]
  /\ last.env.data[1].totalActivities = 0
  /\ last.env.data[1].pendingApprovals = 1

\* the rows of the list the last call returned
Items == {last.env.data[i] : i \in 1..Len(last.env.data)}

\* C12: an activity that createActivity returned with a null error is stored
\* with the fields given and a server-assigned id and timestamp, and, while it
\* is stored, fetchActivities of its family lists it as stored; fetchActivities
\* of another family does not list it.
C12_ActivityRoundTrip ==
  /\ (last.op = "createActivity" /\ last.env.error = NULL)
       => /\ Len(last.env.data) = 1
          /\ last.env.data[1].family_id = last.args.family_id
          /\ last.env.data[1].name = last.args.name
          /\ last.env.data[1].created_by = session
          /\ last.env.data[1].id \in RowIds
          /\ last.env.data[1].created_at \in 1..now
          /\ last.env.data[1] \in activities
  /\ (last.op = "fetchActivities" /\ last.env.error = NULL)
       => /\ \A a \in activities :
               (a.family_id = last.args.family_id /\ a.family_id \in MyFamilies(session))
                 => a \in Items
          /\ \A a \in Items : a.family_id = last.args.family_id /\ a \in activities

\* the activity created earlier is listed, with the fields it was created with
C12_Witness ==
  /\ last.op = "fetchActivities"
  /\ last.env.error = NULL
  /\ \E a \in Items :
       /\ a.id \in RowIds
       /\ a.name = "Chores"
       /\ a.created_by = session
       /\ a.created_at < now

\* C13: createPointEntry stores and returns status approved when the status
\* field is omitted, and pending when pending is given.
C13_DefaultStatus ==
  (last.op = "createPointEntry" /\ last.env.error = NULL)
    => /\ Len(last.env.data) = 1
       /\ last.env.data[1].status =
            (IF last.args.status = "omitted" THEN "approved" ELSE last.args.status)
       /\ last.env.data[1] \in point_entries

\* an entry created without a status is stored as approved
C13_Witness ==
  /\ last.op = "createPointEntry"
  /\ last.env.error = NULL
  /\ last.args.status = "omitted"
  /\ \E e \in point_entries : e = last.env.data[1] /\ e.status = "approved"

FailedLookups == {"error", "raise"}

\* C14: getSession never fails: it resolves, and when the underlying session
\* lookup raised or answered with an error it resolves to {user: null}.
C14_GetSessionNeverFails ==
  last.op = "getSession"
    => /\ ~last.fault
       /\ last.args.lookup \in FailedLookups => last.env.isnull

\* the last call was an embedded signUp as a parent that the auth backend accepted
ParentSignedUp ==
  /\ Supabase
  /\ last.op = "signUp"
  /\ last.args.role = "parent"
  /\ ~last.fault

FamilyOf(uid) == {f \in families : f.id = uid}
ProfileOf(uid) == {p \in user_profiles : p.user_id = uid}

\* C17: an embedded signUp as 'parent' returns a null error and leaves a family
\* row (id = the new user's id, name = displayName + "'s Family", created_by =
\* the new user's id) and a profile of the new user with family_id = that id.
C17_ParentSignUpCreatesFamily ==
  ParentSignedUp
    => /\ last.env.error = NULL
       /\ FamilyFor(last.args.email, "Nora") \in families
       /\ \E p \in ProfileOf(last.args.email) : p.family_id = last.args.email

\* C18: a parent sign-up is atomic: it returns a null error with both rows
\* present, or a non-null error with no auth user, profile or family row of
\* that call left behind.
C18_ParentSignUpAtomic ==
  ParentSignedUp
    => \/ /\ last.env.error = NULL
          /\ FamilyOf(last.args.email) # {}
          /\ ProfileOf(last.args.email) # {}
       \/ /\ last.env.error # NULL
          /\ last.args.email \notin auth_users
          /\ FamilyOf(last.args.email) = {}
          /\ ProfileOf(last.args.email) = {}

\* the backend rejected the credentials of the signIn recorded in call: the
\* embedded client answered with an error; the HTTP backend answered non-2xx,
\* or 2xx with a body whose data is null
Rejected(call) ==
  IF Supabase THEN call.fault
  ELSE call.fault.kind = "http" /\ (~call.fault.ok \/ call.fault.data = NULL)

\* C19: a signIn with invalid credentials returns a non-null error and null
\* data, and under the remote-HTTP variant stores no token and notifies no
\* listener, however the backend reports the rejection.
C19_RejectedSignIn ==
  [][(last'.op = "signIn" /\ last' # last /\ Rejected(last'))
       => /\ last'.env.error # NULL
          /\ last'.env.isnull
          /\ token' = token
          /\ delivered' = delivered]_vars

\* the profile rows the embedded fetchUserProfile recorded in last could see
VisibleProfiles ==
  {p \in user_profiles : CanSelect(session, p) /\ p.user_id = last.args.user_id}

\* C20: the embedded fetchUserProfile treats the store's "no rows" error as
\* non-fatal: it returns a null error and a user with id = userId and role,
\* family_id and display_name unset; any other store error gives a non-null
\* error and null data.
C20_NoProfileIsNotAnError ==
  (Supabase /\ last.op = "fetchUserProfile")
    => /\ last.fault => last.env.error # NULL /\ last.env.isnull
       /\ (~last.fault /\ VisibleProfiles = {})
            => /\ last.env.error = NULL
               /\ ~last.env.isnull
               /\ last.env.data = <<[id |-> last.args.user_id, role |-> NULL,
                                     family_id |-> NULL, display_name |-> NULL]>>

C20_Witness ==
  /\ Supabase
  /\ last.op = "fetchUserProfile"
  /\ ~last.fault
  /\ last.args.user_id = "n1"
  /\ VisibleProfiles = {}
  /\ last.env.error = NULL
  /\ last.env.data[1].role = NULL

\* how often registration r was called with SIGNED_OUT and a null session by
\* the last notifyAuthStateChange
SignedOutCalls(r) ==
  Cardinality({i \in DOMAIN delivered :
                 /\ delivered[i].reg = r
                 /\ delivered[i].event = "SIGNED_OUT"
                 /\ delivered[i].session = NULL})

\* C15: under the remote-HTTP variant every listener registered and not yet
\* unsubscribed when signOut() is called is invoked exactly once during that
\* signOut, with SIGNED_OUT and a null session, whatever the listeners do in
\* their callbacks.
C15_SignOutReachesEveryListener ==
  (Rest /\ last.op = "signOut" /\ ~notify.active)
    => \A r \in last.matched : SignedOutCalls(r) = 1

\* C16: a handle's unsubscribe() removes exactly its own registration, and
\* nothing when that registration is already gone; every other registration
\* stays in place.
C16_UnsubscribeOwnRegistration ==
  last.op = "unsubscribe"
    => last.matched = IF last.args.registered THEN {last.args.reg} ELSE {}

SignIns == {"signIn", "signUp"}

\* the calls of the remote-HTTP variant that send a request
Requested == Rest /\ last.op # "none" /\ last.op # "signOut" /\ last.args.requests > 0

\* C21: under the remote-HTTP variant every request issued while a token is
\* stored, by the data service and by the auth service (GET /auth/me, GET
\* /auth/profile/:userId), carries the token currently in storage as its
\* bearer credential.
C21_RequestsCarryStoredToken ==
  (Requested /\ token # NULL /\ last.op \notin SignIns)
    => last.args.bearer = token

\* the operations of the remote-HTTP data service
RestDataOps == RestListOps \cup {o.op : o \in RestItemOps}

\* C22: each operation of the remote-HTTP data service issues exactly one
\* request; a non-2xx response yields null data and the body's message as the
\* error, or the generic string when the body has none; a transport failure
\* yields null data and the failure's message, not a thrown fault.
C22_OneRequestOneEnvelope ==
  (Rest /\ last.op \in RestDataOps)
    => /\ last.args.requests = 1
       /\ (last.fault.kind = "http" /\ ~last.fault.ok)
            => /\ last.env.isnull
               /\ last.fault.message = NULL => last.env.error = GenericFailure
               /\ last.fault.message \notin NoMessage
                    => last.env.error = last.fault.message
       /\ last.fault.kind = "throw"
            => last.env.isnull /\ last.env.error = "Failed to fetch"

C22_Witness ==
  /\ Rest
  /\ last.op = "createActivity"
  /\ last.fault.kind = "http"
  /\ ~last.fault.ok
  /\ last.fault.message = "denied"
  /\ last.env.error = "denied"
  /\ last.env.isnull

\* C27: under the remote-HTTP variant signOut returns {data: null, error: null}
\* and leaves no token in storage; a token appears again only by a successful
\* signIn or signUp, and while there is none getSession answers {user: null}
\* without sending a request.
C27_SignOutClearsToken ==
  /\ []((Rest /\ last.op = "signOut") => (last.env = OkNull /\ token = NULL))
  /\ []((Rest /\ last.op = "getSession" /\ token = NULL)
          => (last.args.requests = 0 /\ last.env.isnull))
  /\ [][(token = NULL /\ token' # NULL)
          => (last'.op \in SignIns /\ last'.env.error = NULL /\ ~last'.env.isnull)]_vars

C27_Witness ==
  /\ Rest
  /\ last.op = "signOut"
  /\ last.env = OkNull
  /\ token = NULL

SignInEvents == {"SIGNED_IN", "SIGNED_UP"}

\* C29: under the remote-HTTP variant signIn and signUp store the new token
\* before any listener is notified, so a data-service call made inside a
\* listener callback sends the new token; a failed signIn or signUp leaves
\* the stored token and the listener list as they were.
C29_TokenStoredBeforeNotify ==
  /\ []((notify.active /\ notify.event \in SignInEvents)
          => /\ token = notify.stored
             /\ \A i \in DOMAIN delivered : delivered[i].bearer = notify.stored)
  /\ [][(last' # last /\ last'.op \in SignIns /\ last'.env.isnull)
          => (token' = token /\ authStateCallbacks' = authStateCallbacks)]_vars

C29_Witness ==
  /\ notify.active
  /\ notify.event = "SIGNED_IN"
  /\ Len(delivered) = 2
  /\ delivered[2].bearer = "t2"
  /\ token = "t2"

\* C23: between two reset() calls every getAuthService() returns the same
\* instance and every getDataService() returns the same instance, and at most
\* one instance of each kind is built.
C23_OneInstancePerKind ==
  /\ Cardinality(instances.made.auth \cup instances.returned.auth) <= 1
  /\ Cardinality(instances.made.data \cup instances.returned.data) <= 1
  /\ (last.op = "getAuthService" /\ ~last.fault)
       => (last.env.data[1] = factory.authService /\ last.env.data[1].kind = "auth")
  /\ (last.op = "getDataService" /\ ~last.fault)
       => (last.env.data[1] = factory.dataService /\ last.env.data[1].kind = "data")

\* a getter answered from its cache, after both kinds were built
C23_Witness ==
  /\ last.op = "getAuthService"
  /\ ~last.fault
  /\ last.matched = {}
  /\ instances.returned.auth = {last.env.data[1].id}
  /\ instances.returned.data # {}
  /\ exports.pc = "loaded"

Getters == {"getAuthService", "getDataService"}
ConfigReaders == {"getInstance", "reset"}

\* the last call was a getter that built the instance it returned
Built == last.op \in Getters /\ ~last.fault /\ last.matched # {}

\* C24 (as stated): the configuration is read on the first access to a service
\* getter, so a value changed after the factory was constructed and before
\* that getter call is the one the constructed service uses.
C24_ConfigReadAtFirstGetter ==
  Built => last.env.data[1].variant = getServiceConfig(processEnv).type

\* C24 (amended): the configuration is read when the factory is constructed
\* and by reset(), and nowhere else; a getter builds the variant of that cached
\* configuration and leaves it as it is.
C24_ConfigReadAtConstruction ==
  /\ [](Built => last.env.data[1].variant = factory.config.type)
  /\ [][factory'.config # factory.config
          => (last'.op \in ConfigReaders /\ factory'.config = getServiceConfig(processEnv))]_vars

\* an instance built after the environment changed behind the cached configuration
C24_Witness ==
  /\ Built
  /\ last.env.data[1].variant = factory.config.type
  /\ factory.config.type # getServiceConfig(processEnv).type

\* the getter step kind builds a fresh instance of the cached configuration's
\* variant, one that no earlier call returned
BuildsAnew(field) ==
  (~Cached(field) /\ ~last'.fault)
    => /\ last'.matched = {instances.built + 1}
       /\ last'.env.data[1].id = instances.built + 1
       /\ last'.env.data[1].variant = factory.config.type

\* C25: reset() sets both cached services to none and reads the configuration
\* again; the first getter call after it builds a new instance, of the variant
\* that configuration selects, and not the instance returned before the reset.
C25_ResetRebuilds ==
  /\ [](last.op = "reset"
          => /\ factory.authService = NoService
             /\ factory.dataService = NoService
             /\ factory.config = getServiceConfig(processEnv))
  /\ [][(last'.op = "getAuthService" /\ last' # last)
          => BuildsAnew(factory.authService)]_vars
  /\ [][(last'.op = "getDataService" /\ last' # last)
          => BuildsAnew(factory.dataService)]_vars

\* after a reset under another service type, the getter built the other variant
C25_Witness ==
  /\ exports.pc = "loaded"
  /\ last.op = "getAuthService"
  /\ last.matched # {}
  /\ last.env.data[1].variant = "rest-api"
  /\ exports.authService.variant = "supabase"
  /\ last.env.data[1].id # exports.authService.id

\* the errors of the cached configuration: unsupported type, REST settings missing
ConfigErrors == {RestConfigError, UnsupportedError}

\* C26: a configuration error is raised by a service getter, never by the
\* construction of the factory; with nothing cached the getter raises it, the
\* failed getter caches nothing, and the next getter call under the same
\* configuration raises the same error.
C26_ConfigErrorAtGetter ==
  /\ [](last.op = "getInstance" => ~last.fault)
  /\ []((last.op = "getAuthService" /\ last.fault) => factory.authService = NoService)
  /\ []((last.op = "getDataService" /\ last.fault) => factory.dataService = NoService)
  /\ [][(/\ last'.op \in Getters
         /\ last' # last
         /\ ConfigError(factory.config, processEnv) # NULL
         /\ factory.authService = NoService
         /\ factory.dataService = NoService)
          => (last'.fault /\ last'.env.error = ConfigError(factory.config, processEnv))]_vars
  /\ [][(last.op \in Getters /\ last.env.error \in ConfigErrors /\ last'.op \in Getters)
          => (last'.fault /\ last'.env.error = last.env.error)]_vars

\* a getter called after the import raised the remote-HTTP configuration error
C26_Witness ==
  /\ exports.pc = "loaded"
  /\ last.op = "getDataService"
  /\ last.fault
  /\ last.env.error = RestConfigError
  /\ factory.dataService = NoService
  /\ factory.config.type = "rest-api"

\* C30: the module-level authService and dataService are the instances that
\* serviceFactory.getAuthService() and serviceFactory.getDataService() return,
\* also after serviceFactory.reset() under a changed configuration.
C30_ExportsAreCurrentServices ==
  /\ (exports.pc = "loaded" /\ last.op = "getAuthService" /\ ~last.fault)
       => last.env.data[1] = exports.authService
  /\ (exports.pc = "loaded" /\ last.op = "getDataService" /\ ~last.fault)
       => last.env.data[1] = exports.dataService

\* C28: once the AuthProvider has handled a sign-out event, its user stays
\* null until an event carrying a user arrives; a profile fetch started before
\* the sign-out and completing after it does not set the user again.
C28_SignedOutStaysNull ==
  provider.event = "out" => provider.user = NULL

====
